---- MODULE Spec2Model ----
(***************************************************************************)
(* AyurAnkh asynchronous claim API: the FastAPI handlers of                *)
(* Backend/main.py, the Celery task of Backend/tasks.py and the delivery   *)
(* configuration of Backend/celery_app.py.                                 *)
(*                                                                         *)
(* Python str values are sequences of one-character strings.  Python None  *)
(* is the one-element sequence None, whose element is no character.        *)
(***************************************************************************)
EXTENDS Integers, Sequences, FiniteSets, TLC

VARIABLES
    IDEMPOTENCY_DB,  \* main.py:28   idempotency key -> task id
    IMMUTABLE_LOGS,  \* main.py:27   sequence of override log entries
    req,             \* the HTTP requests of submit_claim_async and their responses
    uuidCount,       \* number of uuid4() task ids drawn so far
    clock,           \* datetime.utcnow(), in ticks
    queue,           \* broker: the task messages published and not yet acknowledged
    backend,         \* result backend: task id -> [state, info]
    worker,          \* the Celery worker processes and their position in the task
    dispatched,      \* history: the (key, task id) pairs handed to apply_async
    crashes,         \* number of worker crashes so far
    lastResp         \* the latest response of the status, override and log handlers

vars == <<IDEMPOTENCY_DB, IMMUTABLE_LOGS, req, uuidCount, clock, queue, backend, worker,
          dispatched, crashes, lastResp>>

-----------------------------------------------------------------------------
(* Bounds *)

MaxReq == 2
MaxWorkers == 1
MaxCrashes == 1
MaxLogs == 2

Requests == 1..MaxReq
Workers == 1..MaxWorkers
TaskIds == 1..MaxReq

-----------------------------------------------------------------------------
(* Python values *)

None == <<"<None>">>

\* bool(v) of an Optional[str] or of a str
Truthy(v) == v # None /\ v # <<>>

\* str(v): str(None) is the text None
Str(v) == IF v = None THEN <<"N", "o", "n", "e">> ELSE v

IsSpace(c) == c = " "

RECURSIVE LStrip(_)
LStrip(s) == IF s # <<>> /\ IsSpace(Head(s)) THEN LStrip(Tail(s)) ELSE s

RECURSIVE RStrip(_)
RStrip(s) ==
    IF s # <<>> /\ IsSpace(s[Len(s)]) THEN RStrip(SubSeq(s, 1, Len(s) - 1)) ELSE s

\* str.strip()
Strip(s) == RStrip(LStrip(s))

LowerChar(c) ==
    CASE c = "A" -> "a" [] c = "B" -> "b" [] c = "C" -> "c" [] c = "D" -> "d"
      [] c = "E" -> "e" [] c = "F" -> "f" [] c = "G" -> "g" [] c = "H" -> "h"
      [] c = "I" -> "i" [] c = "J" -> "j" [] c = "K" -> "k" [] c = "L" -> "l"
      [] c = "M" -> "m" [] c = "N" -> "n" [] c = "O" -> "o" [] c = "P" -> "p"
      [] c = "Q" -> "q" [] c = "R" -> "r" [] c = "S" -> "s" [] c = "T" -> "t"
      [] c = "U" -> "u" [] c = "V" -> "v" [] c = "W" -> "w" [] c = "X" -> "x"
      [] c = "Y" -> "y" [] c = "Z" -> "z" [] OTHER -> c

\* str.lower()
Lower(s) == [i \in 1..Len(s) |-> LowerChar(s[i])]

\* the in operator of two str values
Contains(s, sub) ==
    \E i \in 0..(Len(s) - Len(sub)) : SubSeq(s, i + 1, i + Len(sub)) = sub

-----------------------------------------------------------------------------
(* Texts the model uses *)

T_P == <<"P">>
T_P_padded == <<" ", "P", " ">>
T_p == <<"p">>
T_Q == <<"Q">>
T_None == <<"N", "o", "n", "e">>
T_NA == <<"N", "/", "A">>
T_cold == <<"c", "o", "l", "d">>
T_Fracture == <<"F", "r", "a", "c", "t", "u", "r", "e">>
T_critical == <<"c", "r", "i", "t", "i", "c", "a", "l">>
T_fracture == <<"f", "r", "a", "c", "t", "u", "r", "e">>
T_normal == <<"n", "o", "r", "m", "a", "l">>
T_Normal == <<"N", "o", "r", "m", "a", "l">>
T_high == <<"h", "i", "g", "h">>
T_bad == <<"b", "a", "d">>
T_geo == <<"1", "9", ",", "7", "2">>
T_f == <<"f">>
T_k == <<"k">>
T_PdfError == <<"P", "D", "F", " ", "E", "r", "r", "o", "r", ":", " ">>
T_OcrError == <<"O", "C", "R", " ", "E", "r", "r", "o", "r", ":", " ">>

J_empty == <<"{", "}">>
J_obj == <<"{", "\"", "c", "\"", ":", "1", "}">>
J_bad == <<"{">>
J_null == <<"n", "u", "l", "l">>

-----------------------------------------------------------------------------
(* json.loads on the payload texts above.  A parsed value is [t, items]:   *)
(* a dict with the set of its items, or null.                              *)

JsonValid(text) == text \in {J_empty, J_null, J_obj}

EmptyDict == [t |-> "dict", items |-> {}]

JsonLoads(text) ==
    IF text = J_obj THEN [t |-> "dict", items |-> {<<"c", "1">>}]
    ELSE IF text = J_null THEN [t |-> "null", items |-> {}]
    ELSE EmptyDict

\* bool(v) of a parsed value
JsonTruthy(v) == v.t = "dict" /\ v.items # {}

-----------------------------------------------------------------------------
(* Uploaded files.  An upload is [present, exc, data]: exc is the message  *)
(* of the exception its reader raises on this file (None when it raises    *)
(* none) and data is what the reader extracts: the PatientID tag of a      *)
(* DICOM file (None when the tag is absent), the text of a PDF or image.   *)

NoFile == [present |-> FALSE, exc |-> None, data |-> None]
File(exc, data) == [present |-> TRUE, exc |-> exc, data |-> data]

Roles == {"dicom", "lab_pdf", "patient_photo", "identity_doc", "consent_image"}

\* main.py:34-42  Optional[str] = Form(None): a form field sent empty takes the
\* default, as an absent one does
FormNone(v) == IF v = <<>> THEN None ELSE v

\* main.py:46-47: the digest of the raw key text; sha256 is taken to be injective,
\* so the digest is the text itself behind a marker no raw text starts with.
DeriveKey(pid, filename, diag) ==
    <<"#">> \o pid \o <<"-">> \o filename \o <<"-">> \o diag

\* main.py:45-47
EffectiveKey(form) ==
    IF ~Truthy(FormNone(form.idempotency_key))
    THEN DeriveKey(form.verified_patient_id, form.dicom_filename, form.doctor_diagnosis)
    ELSE form.idempotency_key

\* main.py:61-71: save_file for the required DICOM and each optional upload given
FilePaths(form, task_id) ==
    [k \in Roles |->
        IF k = "dicom" \/ form.files[k].present THEN <<task_id, k>> ELSE None]

\* main.py:74-83
ClaimData(form) ==
    [verified_patient_id |-> form.verified_patient_id,
     doctor_diagnosis |-> form.doctor_diagnosis,
     identity_data |-> IF Truthy(FormNone(form.verified_identity_payload))
                       THEN JsonLoads(form.verified_identity_payload) ELSE EmptyDict,
     consent_data |-> IF Truthy(FormNone(form.digital_consent_payload))
                      THEN JsonLoads(form.digital_consent_payload) ELSE EmptyDict,
     patient_geotag |-> FormNone(form.patient_geotag)]

\* main.py:74-75: json.loads raises on text that is not JSON
PayloadsParse(form) ==
    /\ Truthy(FormNone(form.verified_identity_payload))
       => JsonValid(form.verified_identity_payload)
    /\ Truthy(FormNone(form.digital_consent_payload))
       => JsonValid(form.digital_consent_payload)

-----------------------------------------------------------------------------
(* tasks.py: extraction adapters *)

\* tasks.py:21-32
_process_dicom(file) ==
    IF file.exc # None
    THEN [PatientID |-> None, error |-> file.exc]
    ELSE [PatientID |-> IF file.data = None THEN T_NA ELSE file.data, error |-> None]

\* tasks.py:34-43
_process_pdf(file) == IF file.exc # None THEN T_PdfError \o file.exc ELSE file.data

\* tasks.py:45-51
_process_image_ocr(file) == IF file.exc # None THEN T_OcrError \o file.exc ELSE file.data

-----------------------------------------------------------------------------
(* tasks.py:53-87: the validation engine *)

Finding(confidence, reason, args) ==
    [confidence |-> confidence, reason |-> reason, args |-> args]

\* tasks.py:59-66
Rule1(claim_data, dicom_meta) ==
    LET verified_id == Strip(Str(claim_data.verified_patient_id))
        dicom_id == Strip(Str(dicom_meta.PatientID))
    IN  IF Truthy(dicom_meta.error)
        THEN <<Finding("CRITICAL", "DICOM Corrupt", <<dicom_meta.error>>)>>
        ELSE IF verified_id # dicom_id
        THEN <<Finding("CRITICAL", "Patient ID Mismatch", <<verified_id, dicom_id>>)>>
        ELSE <<>>

\* tasks.py:68-72
Rule2(claim_data, lab_text) ==
    LET diag == Lower(claim_data.doctor_diagnosis)
        lab == Lower(lab_text)
    IN  IF (Contains(diag, T_critical) \/ Contains(diag, T_fracture))
           /\ Contains(lab, T_normal)
        THEN <<Finding("HIGH", "Lab report says 'Normal' but Diagnosis is Critical.", <<>>)>>
        ELSE <<>>

\* the geotag demanded of every submission, with a photo or without
Rule3_geotagOnly(claim_data, file_paths) ==
    IF ~Truthy(claim_data.patient_geotag)
    THEN <<Finding("MEDIUM", "Patient photo provided, but GPS geotag data is missing.", <<>>)>>
    ELSE <<>>

\* tasks.py:74-77
Rule3(claim_data, file_paths) ==
    IF Truthy(file_paths["patient_photo"]) /\ ~Truthy(claim_data.patient_geotag)
    THEN <<Finding("MEDIUM", "Patient photo provided, but GPS geotag data is missing.", <<>>)>>
    ELSE <<>>

\* the two consent checks joined by or
Rule4_either(claim_data, file_paths) ==
    IF ~JsonTruthy(claim_data.consent_data) \/ ~Truthy(file_paths["consent_image"])
    THEN <<Finding("CRITICAL", "Missing Patient Consent (Payload or Image required).", <<>>)>>
    ELSE <<>>

\* tasks.py:79-82
Rule4(claim_data, file_paths) ==
    IF ~JsonTruthy(claim_data.consent_data) /\ ~Truthy(file_paths["consent_image"])
    THEN <<Finding("CRITICAL", "Missing Patient Consent (Payload or Image required).", <<>>)>>
    ELSE <<>>

HasConfidence(failures, c) == \E i \in 1..Len(failures) : failures[i].confidence = c

\* the HIGH test made before the CRITICAL test
Aggregate_highFirst(failures) ==
    IF failures = <<>> THEN "PASSED"
    ELSE IF HasConfidence(failures, "HIGH") THEN "FLAGGED_HIGH"
    ELSE IF HasConfidence(failures, "CRITICAL") THEN "FAILED_CRITICAL"
    ELSE "PASSED_MEDIUM"

\* tasks.py:84-87
Aggregate(failures) ==
    IF failures = <<>> THEN "PASSED"
    ELSE IF HasConfidence(failures, "CRITICAL") THEN "FAILED_CRITICAL"
    ELSE IF HasConfidence(failures, "HIGH") THEN "FLAGGED_HIGH"
    ELSE "PASSED_MEDIUM"

\* tasks.py:53-87
_run_validation_engine(claim_data, dicom_meta, lab_text, file_paths) ==
    LET failures == Rule1(claim_data, dicom_meta) \o Rule2(claim_data, lab_text)
                    \o Rule3(claim_data, file_paths) \o Rule4(claim_data, file_paths)
    IN  [status |-> Aggregate(failures), failures |-> failures]

\* the FLAGGED_HIGH branch missing
FinalStatus_noFlagged(val_status) ==
    IF val_status = "FAILED_CRITICAL" THEN "FAILED" ELSE "COMPLETED"

\* tasks.py:155-161
FinalStatus(val_status) ==
    IF val_status = "FAILED_CRITICAL" THEN "FAILED"
    ELSE IF val_status = "FLAGGED_HIGH" THEN "FLAGGED"
    ELSE "COMPLETED"

\* the bundle generated whatever validation said
RunsFhir_always(val_status) == TRUE

\* tasks.py:152
RunsFhir(val_status) == val_status \in {"PASSED", "FLAGGED_HIGH", "PASSED_MEDIUM"}

FhirIdChars ==
    {"A", "B", "C", "D", "E", "F", "G", "H", "I", "J", "K", "L", "M", "N", "O", "P", "Q",
     "R", "S", "T", "U", "V", "W", "X", "Y", "Z", "a", "b", "c", "d", "e", "f", "g", "h",
     "i", "j", "k", "l", "m", "n", "o", "p", "q", "r", "s", "t", "u", "v", "w", "x", "y",
     "z", "0", "1", "2", "3", "4", "5", "6", "7", "8", "9", "-", "."}

\* tasks.py:89-108: Patient(id=...) rejects an id that is no FHIR id, and the
\* except clause turns that into an error field
_generate_mock_fhir(claim_data) ==
    LET id == claim_data.verified_patient_id
    IN  IF id # <<>> /\ \A i \in 1..Len(id) : id[i] \in FhirIdChars
        THEN [error |-> None, patient |-> id, observation |-> claim_data.doctor_diagnosis]
        ELSE [error |-> <<"F", "H", "I", "R">>, patient |-> None, observation |-> None]

-----------------------------------------------------------------------------
(* Submissions *)

MkForm(pid, filename, diag, consent, geotag, key, dicom, lab, photo, consent_image) ==
    [verified_patient_id |-> pid,
     doctor_diagnosis |-> diag,
     verified_identity_payload |-> None,
     digital_consent_payload |-> consent,
     patient_geotag |-> geotag,
     idempotency_key |-> key,
     dicom_filename |-> filename,
     files |-> [k \in Roles |->
                  CASE k = "dicom" -> dicom
                    [] k = "lab_pdf" -> lab
                    [] k = "patient_photo" -> photo
                    [] k = "consent_image" -> consent_image
                    [] OTHER -> NoFile]]

\* the submissions of Spec: one patient and diagnosis, with and without a client
\* key, with and without a lab report
FormsSys ==
    {MkForm(T_P, T_f, T_Fracture, J_obj, None, key, File(None, T_P), lab, NoFile, NoFile) :
        key \in {None, T_k}, lab \in {NoFile, File(None, T_Normal)}}

NoForm == MkForm(<<>>, <<>>, <<>>, None, None, None, NoFile, NoFile, NoFile, NoFile)

NoResp == [code |-> 0, task_id |-> 0, idempotency_key |-> None]

\* the duplicate check nested under the derivation of line 45, so that a
\* client-supplied key is never looked up
IsDuplicate_derivedOnly(form, key, db) ==
    ~Truthy(form.idempotency_key) /\ key \in DOMAIN db

\* the duplicate check made for client-supplied keys alone
IsDuplicate_suppliedOnly(form, key, db) ==
    Truthy(form.idempotency_key) /\ key \in DOMAIN db

\* main.py:50: the duplicate check
IsDuplicate(form, key, db) == key \in DOMAIN db

\* IDEMPOTENCY_DB[key] = task_id
DictSet(db, key, value) ==
    [k \in DOMAIN db \cup {key} |-> IF k = key THEN value ELSE db[k]]

\* the message apply_async publishes, with the files saved under temp_uploads/<task_id>
Message(form, task_id) ==
    [task_id |-> task_id,
     claim_data |-> ClaimData(form),
     file_paths |-> FilePaths(form, task_id),
     files |-> form.files]

-----------------------------------------------------------------------------
(* Worker state *)

NoMeta == [PatientID |-> None, error |-> None]
NoValidation == [status |-> "", failures |-> <<>>]
NoFhir == [error |-> None, patient |-> None, observation |-> None]

\* tasks.py:116; keys is the set of keys the dict holds
InitResults ==
    [keys |-> {"status", "steps_completed", "ocr_results"},
     status |-> "PROCESSING",
     steps_completed |-> <<>>,
     ocr_results |-> [k \in {"lab_pdf", "identity_doc", "consent_image"} |-> None],
     dicom_metadata |-> NoMeta,
     lab_report_text |-> None,
     validation_result |-> NoValidation,
     fhir_bundle |-> NoFhir,
     error |-> None]

\* the except clause returning the results gathered so far
ExceptResult_returnsResults(results, msg) == results

\* tasks.py:165-166
ExceptResult(results, msg) ==
    [InitResults EXCEPT !.keys = {"status", "error"}, !.status = "ERROR", !.error = msg]

NoMessage ==
    [task_id |-> 0, claim_data |-> ClaimData(NoForm), file_paths |-> FilePaths(NoForm, 0),
     files |-> NoForm.files]

IdleWorker == [pc |-> "idle", msg |-> NoMessage, results |-> InitResults, i |-> 1]

\* no status, override or log request answered yet; a response without a result
\* or info key carries the placeholders of this record
NoHttp == [op |-> "none", code |-> 0, task_id |-> 0, status |-> "", info |-> "",
           result |-> InitResults, args |-> <<>>, logs |-> <<>>]

\* tasks.py:126
OcrKeys == <<"lab_pdf", "identity_doc", "consent_image">>
OcrLabels == <<"LAB_PDF", "IDENTITY_OCR", "CONSENT_OCR">>

\* the next key of the loop of tasks.py:126 whose file was uploaded, 4 if none is left
RECURSIVE NextOcr(_, _)
NextOcr(file_paths, i) ==
    IF i > 3 THEN 4
    ELSE IF Truthy(file_paths[OcrKeys[i]]) THEN i
    ELSE NextOcr(file_paths, i + 1)

\* tasks.py:111-163: the value the task returns when it runs from its first line
\* to its return statement and no update_state call raises
process_claim_async(m) ==
    LET Text(k) == IF k = "lab_pdf" THEN _process_pdf(m.files[k])
                   ELSE _process_image_ocr(m.files[k])
        Step(i) == IF Truthy(m.file_paths[OcrKeys[i]]) THEN <<OcrLabels[i]>> ELSE <<>>
        meta == _process_dicom(m.files["dicom"])
        lab == IF Truthy(m.file_paths["lab_pdf"]) THEN Text("lab_pdf") ELSE T_NA
        val_res == _run_validation_engine(m.claim_data, meta, lab, m.file_paths)
    IN  [keys |-> {"status", "steps_completed", "ocr_results", "dicom_metadata",
                   "lab_report_text", "validation_result"}
                  \cup (IF RunsFhir(val_res.status) THEN {"fhir_bundle"} ELSE {}),
         status |-> FinalStatus(val_res.status),
         steps_completed |-> <<"DICOM">> \o Step(1) \o Step(2) \o Step(3),
         ocr_results |-> [k \in {"lab_pdf", "identity_doc", "consent_image"} |->
                            IF Truthy(m.file_paths[k]) THEN Text(k) ELSE None],
         dicom_metadata |-> meta,
         lab_report_text |-> lab,
         validation_result |-> val_res,
         fhir_bundle |-> IF RunsFhir(val_res.status)
                         THEN _generate_mock_fhir(m.claim_data) ELSE NoFhir,
         error |-> None]

-----------------------------------------------------------------------------
(* Observable task state *)

Terminal == {"COMPLETED", "FLAGGED", "FAILED", "ERROR"}

\* main.py:93-94: AsyncResult(task_id).status; Celery reports PENDING for an id
\* the backend holds nothing for
CeleryStatus(task_id) ==
    IF task_id \in DOMAIN backend THEN backend[task_id].state ELSE "PENDING"

\* the task state a poller sees: the Celery state, and once the task has returned
\* the status field of the result it returned
TaskState(task_id) ==
    IF CeleryStatus(task_id) = "SUCCESS" THEN backend[task_id].result.status
    ELSE CeleryStatus(task_id)

-----------------------------------------------------------------------------
(* Initial state: the module-level state of main.py:27-28, an empty broker *)
(* and backend, idle workers                                               *)

Init ==
    /\ IDEMPOTENCY_DB = <<>>
    /\ IMMUTABLE_LOGS = <<>>
    /\ req = [r \in Requests |-> [pc |-> "idle", form |-> NoForm, resp |-> NoResp]]
    /\ uuidCount = 0
    /\ clock = 0
    /\ queue = {}
    /\ backend = <<>>
    /\ worker = [w \in Workers |-> IdleWorker]
    /\ dispatched = <<>>
    /\ crashes = 0
    /\ lastResp = NoHttp

-----------------------------------------------------------------------------
(* main.py:30-89  submit_claim_async *)

\* FastAPI has read the form of request r and scheduled the handler coroutine.
\* Requests are numbered in the order they arrive.
Arrive(r, form) ==
    /\ req[r].pc = "idle"
    /\ \A r0 \in Requests : r0 < r => req[r0].pc # "idle"
    /\ req' = [req EXCEPT ![r] = [pc |-> "parsed", form |-> form, resp |-> NoResp]]
    /\ UNCHANGED <<IDEMPOTENCY_DB, IMMUTABLE_LOGS, uuidCount, clock, queue, backend,
                   worker, dispatched, crashes, lastResp>>

\* a variant that binds the key before it hands the task to the queue
Submit_bindsFirst(r, published) ==
    /\ req[r].pc = "parsed"
    /\ LET form == req[r].form
           key == EffectiveKey(form)
           task_id == uuidCount + 1
           Respond(resp) == req' = [req EXCEPT ![r].pc = "done", ![r].resp = resp]
       IN  IF IsDuplicate(form, key, IDEMPOTENCY_DB)
           THEN /\ Respond([code |-> 409, task_id |-> IDEMPOTENCY_DB[key],
                            idempotency_key |-> None])
                /\ UNCHANGED <<IDEMPOTENCY_DB, uuidCount, queue, dispatched>>
           ELSE /\ uuidCount' = task_id
                /\ IF PayloadsParse(form)
                   THEN /\ IDEMPOTENCY_DB' = DictSet(IDEMPOTENCY_DB, key, task_id)
                        /\ IF published
                           THEN /\ queue' = queue \cup {Message(form, task_id)}
                                /\ dispatched' = Append(dispatched,
                                                        [key |-> key, task_id |-> task_id])
                                /\ Respond([code |-> 200, task_id |-> task_id,
                                            idempotency_key |-> key])
                           ELSE /\ Respond([code |-> 500, task_id |-> 0,
                                            idempotency_key |-> None])
                                /\ UNCHANGED <<queue, dispatched>>
                   ELSE /\ Respond([code |-> 500, task_id |-> 0, idempotency_key |-> None])
                        /\ UNCHANGED <<IDEMPOTENCY_DB, queue, dispatched>>
    /\ UNCHANGED <<IMMUTABLE_LOGS, clock, backend, worker, crashes, lastResp>>

\* The handler body.  It is an async def with no await in it, so the event loop
\* runs it from line 44 to its return without running any other handler.
\* published is whether apply_async returned (TRUE) or raised (FALSE).
Submit(r, published) ==
    /\ req[r].pc = "parsed"
    /\ LET form == req[r].form
           key == EffectiveKey(form)
           task_id == uuidCount + 1
           Respond(resp) == req' = [req EXCEPT ![r].pc = "done", ![r].resp = resp]
       IN  IF IsDuplicate(form, key, IDEMPOTENCY_DB)
           THEN /\ Respond([code |-> 409, task_id |-> IDEMPOTENCY_DB[key],
                            idempotency_key |-> None])
                /\ UNCHANGED <<IDEMPOTENCY_DB, uuidCount, queue, dispatched>>
           ELSE /\ uuidCount' = task_id
                /\ IF PayloadsParse(form) /\ published
                   THEN /\ queue' = queue \cup {Message(form, task_id)}
                        /\ dispatched' = Append(dispatched, [key |-> key, task_id |-> task_id])
                        /\ IDEMPOTENCY_DB' = DictSet(IDEMPOTENCY_DB, key, task_id)
                        /\ Respond([code |-> 200, task_id |-> task_id,
                                    idempotency_key |-> key])
                   ELSE /\ Respond([code |-> 500, task_id |-> 0, idempotency_key |-> None])
                        /\ UNCHANGED <<IDEMPOTENCY_DB, queue, dispatched>>
    /\ UNCHANGED <<IMMUTABLE_LOGS, clock, backend, worker, crashes, lastResp>>

-----------------------------------------------------------------------------
(* main.py:91-106  get_claim_status, doctor_override, view_logs *)

Sha256(text) == <<"#">> \o text

OverrideInputs == {<<"1">>}

\* main.py:101
OverrideLog(task_id, doctor_id, override_reason, now) ==
    [event |-> "OVERRIDE", timestamp |-> now, task_id |-> task_id,
     doctor_id |-> doctor_id, reason |-> override_reason,
     signature |-> Sha256(task_id \o doctor_id \o override_reason)]

\* a variant that declares the form fields optional, Form(None)
RequiredForm_optional(v) == TRUE

\* main.py:100  Form(...): a form field that is absent or the empty string is missing
RequiredForm(v) == v # None /\ v # <<>>

\* a variant that inserts the new entry at the head of the log
doctor_override_prepend(task_id, doctor_id, override_reason, now) ==
    /\ Len(IMMUTABLE_LOGS) < MaxLogs
    /\ RequiredForm(task_id) /\ RequiredForm(doctor_id) /\ RequiredForm(override_reason)
    /\ LET log == OverrideLog(task_id, doctor_id, override_reason, now) IN
          /\ IMMUTABLE_LOGS' = <<log>> \o IMMUTABLE_LOGS
          /\ lastResp' = [NoHttp EXCEPT !.op = "override", !.code = 200,
                                       !.status = "OVERRIDE_ACCEPTED",
                                       !.args = <<task_id, doctor_id, override_reason>>,
                                       !.logs = <<log>>]
    /\ clock' = now
    /\ UNCHANGED <<IDEMPOTENCY_DB, req, uuidCount, queue, backend, worker, dispatched,
                   crashes>>

\* a variant in which an accepted override also completes the flagged tasks
doctor_override_completes(task_id, doctor_id, override_reason, now) ==
    /\ Len(IMMUTABLE_LOGS) < MaxLogs
    /\ RequiredForm(task_id) /\ RequiredForm(doctor_id) /\ RequiredForm(override_reason)
    /\ LET log == OverrideLog(task_id, doctor_id, override_reason, now) IN
          /\ IMMUTABLE_LOGS' = Append(IMMUTABLE_LOGS, log)
          /\ lastResp' = [NoHttp EXCEPT !.op = "override", !.code = 200,
                                       !.status = "OVERRIDE_ACCEPTED",
                                       !.args = <<task_id, doctor_id, override_reason>>,
                                       !.logs = <<log>>]
    /\ backend' = [t \in DOMAIN backend |->
                      IF backend[t].state = "SUCCESS" /\ backend[t].result.status = "FLAGGED"
                      THEN [backend[t] EXCEPT !.result.status = "COMPLETED"]
                      ELSE backend[t]]
    /\ clock' = now
    /\ UNCHANGED <<IDEMPOTENCY_DB, req, uuidCount, queue, worker, dispatched, crashes>>

\* main.py:99-103; a request with a missing field is answered 422 before the body runs
doctor_override(task_id, doctor_id, override_reason, now) ==
    /\ Len(IMMUTABLE_LOGS) < MaxLogs
    /\ IF RequiredForm(task_id) /\ RequiredForm(doctor_id) /\ RequiredForm(override_reason)
       THEN LET log == OverrideLog(task_id, doctor_id, override_reason, now) IN
              /\ IMMUTABLE_LOGS' = Append(IMMUTABLE_LOGS, log)
              /\ lastResp' = [NoHttp EXCEPT !.op = "override", !.code = 200,
                                       !.status = "OVERRIDE_ACCEPTED",
                                       !.args = <<task_id, doctor_id, override_reason>>,
                                       !.logs = <<log>>]
              /\ clock' = now
       ELSE /\ lastResp' = [NoHttp EXCEPT !.op = "override", !.code = 422,
                                       !.args = <<task_id, doctor_id, override_reason>>]
            /\ UNCHANGED <<IMMUTABLE_LOGS, clock>>
    /\ UNCHANGED <<IDEMPOTENCY_DB, req, uuidCount, queue, backend, worker, dispatched,
                   crashes>>

\* main.py:91-97; no branch answers anything but 200
get_claim_status(task_id) ==
    /\ LET status == CeleryStatus(task_id) IN
          lastResp' = [NoHttp EXCEPT
                          !.op = "status", !.code = 200, !.task_id = task_id,
                          !.status = status,
                          !.result = IF status \in {"SUCCESS", "FAILURE"}
                                     THEN backend[task_id].result ELSE InitResults,
                          !.info = IF status \in {"PROCESSING", "VALIDATING"}
                                   THEN backend[task_id].info ELSE ""]
    /\ UNCHANGED <<IDEMPOTENCY_DB, IMMUTABLE_LOGS, req, uuidCount, clock, queue, backend,
                   worker, dispatched, crashes>>

\* main.py:105-106
view_logs ==
    /\ lastResp' = [NoHttp EXCEPT !.op = "logs", !.code = 200, !.logs = IMMUTABLE_LOGS]
    /\ UNCHANGED <<IDEMPOTENCY_DB, IMMUTABLE_LOGS, req, uuidCount, clock, queue, backend,
                   worker, dispatched, crashes>>

(* tasks.py:111-170  process_claim_async on a worker; celery_app.py:18-19 *)

Reserved(m) == \E w \in Workers : worker[w].pc # "idle" /\ worker[w].msg = m

\* self.update_state(state=..., meta={'step': ...})
UpdateState(task_id, state, step) ==
    backend' = DictSet(backend, task_id, [state |-> state, info |-> step,
                                          result |-> InitResults])

\* a variant in which an execution that finds progress recorded for its task
\* resumes after the DICOM step instead of starting over
Deliver_resumes(w, m) ==
    /\ worker[w].pc = "idle"
    /\ \A w0 \in Workers : w0 < w => worker[w0].pc # "idle"
    /\ m \in queue
    /\ ~Reserved(m)
    /\ worker' = [worker EXCEPT ![w] =
                      [pc |-> IF CeleryStatus(m.task_id) = "PENDING" THEN "dicom" ELSE "ocr",
                       msg |-> m, results |-> InitResults, i |-> 1]]
    /\ UNCHANGED <<IDEMPOTENCY_DB, IMMUTABLE_LOGS, req, uuidCount, clock, queue, backend,
                   dispatched, crashes, lastResp>>

\* The broker delivers an unacknowledged message to a free worker
\* (worker_prefetch_multiplier=1); also the re-delivery after a crash.  The
\* workers are alike: the free worker of the lowest number takes the message.
Deliver(w, m) ==
    /\ worker[w].pc = "idle"
    /\ \A w0 \in Workers : w0 < w => worker[w0].pc # "idle"
    /\ m \in queue
    /\ ~Reserved(m)
    /\ worker' = [worker EXCEPT ![w] = [pc |-> "dicom", msg |-> m,
                                        results |-> InitResults, i |-> 1]]
    /\ UNCHANGED <<IDEMPOTENCY_DB, IMMUTABLE_LOGS, req, uuidCount, clock, queue, backend,
                   dispatched, crashes, lastResp>>

\* tasks.py:120-122
StepDicom(w) ==
    /\ worker[w].pc = "dicom"
    /\ LET m == worker[w].msg
           res == worker[w].results
       IN  /\ UpdateState(m.task_id, "PROCESSING", "Processing DICOM...")
           /\ worker' = [worker EXCEPT
                  ![w].pc = "ocr",
                  ![w].results = [res EXCEPT
                      !.keys = @ \cup {"dicom_metadata"},
                      !.dicom_metadata = _process_dicom(m.files["dicom"]),
                      !.steps_completed = Append(@, "DICOM")]]
    /\ UNCHANGED <<IDEMPOTENCY_DB, IMMUTABLE_LOGS, req, uuidCount, clock, queue,
                   dispatched, crashes, lastResp>>

\* tasks.py:126-140: one pass of the loop body for the next uploaded file
StepOcr(w) ==
    /\ worker[w].pc = "ocr"
    /\ LET m == worker[w].msg
           res == worker[w].results
           i == NextOcr(m.file_paths, worker[w].i)
       IN  /\ i <= 3
           /\ UpdateState(m.task_id, "PROCESSING", OcrLabels[i])
           /\ LET key == OcrKeys[i]
                  text == IF key = "lab_pdf" THEN _process_pdf(m.files[key])
                          ELSE _process_image_ocr(m.files[key])
              IN  worker' = [worker EXCEPT
                      ![w].i = i + 1,
                      ![w].results = [res EXCEPT
                          !.keys = IF key = "lab_pdf" THEN @ \cup {"lab_report_text"} ELSE @,
                          !.lab_report_text = IF key = "lab_pdf" THEN text ELSE @,
                          !.ocr_results = [@ EXCEPT ![key] = text],
                          !.steps_completed = Append(@, OcrLabels[i])]]
    /\ UNCHANGED <<IDEMPOTENCY_DB, IMMUTABLE_LOGS, req, uuidCount, clock, queue,
                   dispatched, crashes, lastResp>>

\* tasks.py:143-147
StepValidating(w) ==
    /\ worker[w].pc = "ocr"
    /\ LET m == worker[w].msg
           res == worker[w].results
       IN  /\ NextOcr(m.file_paths, worker[w].i) > 3
           /\ UpdateState(m.task_id, "VALIDATING", "Running AI Validation Agents...")
           /\ worker' = [worker EXCEPT
                  ![w].pc = "validate",
                  ![w].results = [res EXCEPT
                      !.keys = @ \cup {"lab_report_text"},
                      !.lab_report_text =
                          IF "lab_report_text" \in res.keys THEN @ ELSE T_NA]]
    /\ UNCHANGED <<IDEMPOTENCY_DB, IMMUTABLE_LOGS, req, uuidCount, clock, queue,
                   dispatched, crashes, lastResp>>

\* tasks.py:148-163
StepValidate(w) ==
    /\ worker[w].pc = "validate"
    /\ LET m == worker[w].msg
           res == worker[w].results
           val_res == _run_validation_engine(m.claim_data, res.dicom_metadata,
                                             res.lab_report_text, m.file_paths)
           fhir == RunsFhir(val_res.status)
       IN  worker' = [worker EXCEPT
               ![w].pc = "return",
               ![w].results = [res EXCEPT
                   !.keys = @ \cup {"validation_result"}
                              \cup (IF fhir THEN {"fhir_bundle"} ELSE {}),
                   !.validation_result = val_res,
                   !.fhir_bundle = IF fhir THEN _generate_mock_fhir(m.claim_data) ELSE @,
                   !.status = FinalStatus(val_res.status)]]
    /\ UNCHANGED <<IDEMPOTENCY_DB, IMMUTABLE_LOGS, req, uuidCount, clock, queue, backend,
                   dispatched, crashes, lastResp>>

\* tasks.py:165-166: update_state raises (the backend is unreachable) and the
\* except clause returns the ERROR result
Fault(w) ==
    /\ worker[w].pc \in {"dicom", "ocr"}
    /\ worker' = [worker EXCEPT
           ![w].pc = "return",
           ![w].results = ExceptResult(worker[w].results, T_bad)]
    /\ UNCHANGED <<IDEMPOTENCY_DB, IMMUTABLE_LOGS, req, uuidCount, clock, queue, backend,
                   dispatched, crashes, lastResp>>

\* The task function has returned: Celery stores the value as the SUCCESS result
StepReturn(w) ==
    /\ worker[w].pc = "return"
    /\ backend' = DictSet(backend, worker[w].msg.task_id,
                          [state |-> "SUCCESS", info |-> "", result |-> worker[w].results])
    /\ worker' = [worker EXCEPT ![w].pc = "ack"]
    /\ UNCHANGED <<IDEMPOTENCY_DB, IMMUTABLE_LOGS, req, uuidCount, clock, queue,
                   dispatched, crashes, lastResp>>

\* celery_app.py:18 task_acks_late: the message is acknowledged after the task ran
Ack(w) ==
    /\ worker[w].pc = "ack"
    /\ queue' = queue \ {worker[w].msg}
    /\ worker' = [worker EXCEPT ![w] = IdleWorker]
    /\ UNCHANGED <<IDEMPOTENCY_DB, IMMUTABLE_LOGS, req, uuidCount, clock, backend,
                   dispatched, crashes, lastResp>>

\* The worker process dies; its unacknowledged message stays with the broker
Crash(w) ==
    /\ worker[w].pc # "idle"
    /\ crashes < MaxCrashes
    /\ crashes' = crashes + 1
    /\ worker' = [worker EXCEPT ![w] = IdleWorker]
    /\ UNCHANGED <<IDEMPOTENCY_DB, IMMUTABLE_LOGS, req, uuidCount, clock, queue, backend,
                   dispatched, lastResp>>

WorkerStep(w) ==
    \/ \E m \in queue : Deliver(w, m)
    \/ StepDicom(w)
    \/ StepOcr(w)
    \/ StepValidating(w)
    \/ StepValidate(w)
    \/ Fault(w)
    \/ StepReturn(w)
    \/ Ack(w)

Next ==
    \/ \E r \in Requests, form \in FormsSys : Arrive(r, form)
    \/ \E r \in Requests, published \in BOOLEAN : Submit(r, published)
    \/ \E t \in TaskIds : get_claim_status(t)
    \/ \E t \in OverrideInputs, now \in {clock, clock + 1} : doctor_override(t, t, t, now)
    \/ view_logs
    \/ \E w \in Workers : WorkerStep(w)
    \/ \E w \in Workers : Crash(w)

Spec == Init /\ [][Next]_vars

-----------------------------------------------------------------------------
(* The pipeline on one submission, over the inputs the validation rules read *)

FormsV ==
    {MkForm(pid, T_f, diag, consent, geotag, None, dicom, lab, photo, consent_image) :
        pid \in {T_P, T_P_padded, T_p, T_None},
        diag \in {T_cold, T_Fracture},
        consent \in {None, <<>>, J_empty, J_null, J_obj, J_bad},
        geotag \in {None, <<>>, T_geo},
        dicom \in {File(None, T_P), File(None, T_P_padded), File(None, T_Q),
                   File(None, None), File(T_bad, None), File(<<>>, None)},
        lab \in {NoFile, File(None, T_Normal), File(None, T_high), File(T_bad, None),
                 File(T_normal, None)},
        photo \in {NoFile, File(None, <<>>)},
        consent_image \in {NoFile, File(None, T_cold)}}

InitV ==
    /\ IDEMPOTENCY_DB = <<>>
    /\ IMMUTABLE_LOGS = <<>>
    /\ \E form \in FormsV :
          req = [r \in Requests |->
                    IF r = 1 THEN [pc |-> "parsed", form |-> form, resp |-> NoResp]
                    ELSE [pc |-> "idle", form |-> NoForm, resp |-> NoResp]]
    /\ uuidCount = 0
    /\ clock = 0
    /\ queue = {}
    /\ backend = <<>>
    /\ worker = [w \in Workers |-> IdleWorker]
    /\ dispatched = <<>>
    /\ crashes = 0
    /\ lastResp = NoHttp

NextV ==
    \/ \E r \in Requests, published \in BOOLEAN : Submit(r, published)
    \/ \E w \in Workers : WorkerStep(w)

SpecV == InitV /\ [][NextV]_vars

-----------------------------------------------------------------------------
(* Key derivation: submissions without a client key, over texts with hyphens *)

KeyTexts == {<<"a">>, <<"-">>, <<"a", "a">>, <<"a", "-">>, <<"-", "a">>, <<"a", "-", "a">>}

FormsK ==
    {MkForm(pid, filename, diag, J_obj, None, None, File(None, pid), NoFile, NoFile, NoFile) :
        pid \in KeyTexts, filename \in KeyTexts, diag \in {<<"a">>, <<"a", "-", "a">>}}

InitK ==
    /\ IDEMPOTENCY_DB = <<>>
    /\ IMMUTABLE_LOGS = <<>>
    /\ \E f1 \in FormsK, f2 \in FormsK :
          req = [r \in Requests |->
                    IF r = 1 THEN [pc |-> "parsed", form |-> f1, resp |-> NoResp]
                    ELSE IF r = 2 THEN [pc |-> "parsed", form |-> f2, resp |-> NoResp]
                    ELSE [pc |-> "idle", form |-> NoForm, resp |-> NoResp]]
    /\ uuidCount = 0
    /\ clock = 0
    /\ queue = {}
    /\ backend = <<>>
    /\ worker = [w \in Workers |-> IdleWorker]
    /\ dispatched = <<>>
    /\ crashes = 0
    /\ lastResp = NoHttp

NextK == \E r \in Requests, published \in BOOLEAN : Submit(r, published)

SpecK == InitK /\ [][NextK]_vars

-----------------------------------------------------------------------------
(* Admission and processing without worker crashes, started with or without *)
(* an override already logged                                               *)

InitA ==
    /\ IDEMPOTENCY_DB = <<>>
    /\ IMMUTABLE_LOGS \in {<<>>, <<OverrideLog(<<"1">>, <<"d">>, <<"r">>, 0)>>}
    /\ req = [r \in Requests |-> [pc |-> "idle", form |-> NoForm, resp |-> NoResp]]
    /\ uuidCount = 0
    /\ clock = 0
    /\ queue = {}
    /\ backend = <<>>
    /\ worker = [w \in Workers |-> IdleWorker]
    /\ dispatched = <<>>
    /\ crashes = 0
    /\ lastResp = NoHttp

NextA ==
    \/ \E r \in Requests, form \in FormsSys : Arrive(r, form)
    \/ \E r \in Requests, published \in BOOLEAN : Submit(r, published)
    \/ \E w \in Workers : WorkerStep(w)

SpecA == InitA /\ [][NextA]_vars

(* One admitted task on the workers, with crashes and re-delivery *)

InitW ==
    /\ IDEMPOTENCY_DB = <<>>
    /\ IMMUTABLE_LOGS = <<>>
    /\ \E form \in FormsSys :
          req = [r \in Requests |->
                    IF r = 1 THEN [pc |-> "parsed", form |-> form, resp |-> NoResp]
                    ELSE [pc |-> "idle", form |-> NoForm, resp |-> NoResp]]
    /\ uuidCount = 0
    /\ clock = 0
    /\ queue = {}
    /\ backend = <<>>
    /\ worker = [w \in Workers |-> IdleWorker]
    /\ dispatched = <<>>
    /\ crashes = 0
    /\ lastResp = NoHttp

NextW ==
    \/ \E r \in Requests, published \in BOOLEAN : Submit(r, published)
    \/ \E w \in Workers : WorkerStep(w)
    \/ \E w \in Workers : Crash(w)

SpecW == InitW /\ [][NextW]_vars

-----------------------------------------------------------------------------
(* One submission with the status, override and log handlers *)

\* the values of a form field of an override request
OverrideFields == {<<>>, <<"1">>}

\* the ids a poller asks for: those the service may issue and one it never issues
QueryIds == 1..(MaxReq + 1)

InitO == InitW

NextO ==
    \/ \E published \in BOOLEAN : Submit(1, published)
    \/ \E w \in Workers : WorkerStep(w)
    \/ \E t \in QueryIds : get_claim_status(t)
    \/ \E t \in OverrideFields, d \in OverrideFields, o \in OverrideFields,
          now \in {clock, clock + 1} : doctor_override(t, d, o, now)
    \/ view_logs

SpecO == InitO /\ [][NextO]_vars

-----------------------------------------------------------------------------
(* Claims *)

Done(r) == req[r].pc = "done"
Triple(form) == <<form.verified_patient_id, form.dicom_filename, form.doctor_diagnosis>>
DispatchesFor(key) == {i \in 1..Len(dispatched) : dispatched[i].key = key}

\* C1: of two submissions carrying the same idempotency key that are in flight
\* together, at most one is admitted whatever the order the handlers run in: at
\* most one task is dispatched for the key, and the submission handled after the
\* admitted one receives the 409 response naming the admitted task.
C1_AtMostOneAdmitted ==
    \A r1, r2 \in Requests :
        (r1 # r2 /\ req[r1].pc # "idle" /\ req[r2].pc # "idle"
            /\ EffectiveKey(req[r1].form) = EffectiveKey(req[r2].form))
        => /\ ~(req[r1].resp.code = 200 /\ req[r2].resp.code = 200)
           /\ Cardinality(DispatchesFor(EffectiveKey(req[r1].form))) <= 1
           /\ (req[r1].resp.code = 200 /\ Done(r2))
                 => (req[r2].resp.code \in {409, 500}
                     /\ (req[r2].resp.code = 409
                            => req[r2].resp.task_id = req[r1].resp.task_id))

C1_Witness ==
    \E r1, r2 \in Requests :
        /\ r1 # r2
        /\ Truthy(req[r1].form.idempotency_key)
        /\ req[r1].form.idempotency_key = req[r2].form.idempotency_key
        /\ req[r1].resp.code = 200
        /\ req[r2].resp.code = 409

\* C2: every bound key maps to one task id for which exactly one task was
\* dispatched, and no step changes or removes the task id bound to a key.
C2_BindingStable ==
    [][/\ \A k \in DOMAIN IDEMPOTENCY_DB :
              k \in DOMAIN IDEMPOTENCY_DB' /\ IDEMPOTENCY_DB'[k] = IDEMPOTENCY_DB[k]
       /\ \A k \in DOMAIN IDEMPOTENCY_DB' :
              /\ Cardinality({i \in 1..Len(dispatched') : dispatched'[i].key = k}) = 1
              /\ \A i \in 1..Len(dispatched') :
                     dispatched'[i].key = k => dispatched'[i].task_id = IDEMPOTENCY_DB'[k]
              /\ Cardinality({i \in 1..Len(dispatched') :
                                 dispatched'[i].task_id = IDEMPOTENCY_DB'[k]}) = 1]_vars

C2_Witness ==
    \E r1, r2 \in Requests :
        /\ EffectiveKey(req[r1].form) = EffectiveKey(req[r2].form)
        /\ req[r1].form # req[r2].form
        /\ req[r1].resp.code = 200
        /\ req[r2].resp.code = 409
        /\ IDEMPOTENCY_DB[EffectiveKey(req[r1].form)] = req[r1].resp.task_id

\* C3: when a submission without a client key is handled after one with the same
\* (patient id, primary document name, diagnosis) and no client key was answered,
\* it derives the key that one was admitted under, it is rejected with that
\* submission's task id, and the step changes nothing but the response: no task id
\* is drawn, nothing is dispatched, and the idempotency table, the task states and
\* the override log are unchanged.
C3_ResubmissionRejected ==
    [][\A r, r0 \in Requests :
          (/\ r # r0
           /\ req[r].pc = "parsed" /\ req'[r].pc = "done"
           /\ ~Truthy(req[r].form.idempotency_key)
           /\ ~Truthy(req[r0].form.idempotency_key)
           /\ Triple(req[r].form) = Triple(req[r0].form)
           /\ req[r0].resp.code \in {200, 409})
          => /\ req'[r].resp.code = 409
             /\ req'[r].resp.task_id = req[r0].resp.task_id
             /\ req[r0].resp.code = 200
                  => IDEMPOTENCY_DB[req[r0].resp.idempotency_key] = req'[r].resp.task_id
             /\ UNCHANGED <<IDEMPOTENCY_DB, IMMUTABLE_LOGS, uuidCount, queue, backend,
                            worker, dispatched>>]_vars

C3_Witness ==
    \E r, r0 \in Requests :
        /\ r # r0
        /\ ~Truthy(req[r].form.idempotency_key)
        /\ ~Truthy(req[r0].form.idempotency_key)
        /\ Triple(req[r].form) = Triple(req[r0].form)
        /\ req[r].form # req[r0].form
        /\ req[r0].resp.code = 200
        /\ req[r].resp.code = 409
        /\ IMMUTABLE_LOGS # <<>>

\* C4: two submissions without a client key whose (patient id, primary document
\* name, diagnosis) triples differ derive different keys, so neither is rejected
\* as a duplicate of the other.
C4_DistinctTriplesDistinctKeys ==
    \A r1, r2 \in Requests :
        (/\ r1 # r2
         /\ req[r1].resp.code = 200 /\ Done(r2)
         /\ ~Truthy(req[r1].form.idempotency_key)
         /\ ~Truthy(req[r2].form.idempotency_key)
         /\ Triple(req[r1].form) # Triple(req[r2].form))
        => /\ EffectiveKey(req[r1].form) # EffectiveKey(req[r2].form)
           /\ ~(req[r1].resp.code = 200 /\ req[r2].resp.code = 409
                /\ req[r2].resp.task_id = req[r1].resp.task_id)

StateRank(state) ==
    CASE state = "PENDING" -> 0
      [] state = "PROCESSING" -> 1
      [] state = "VALIDATING" -> 2
      [] OTHER -> 3

\* C5: no step moves a task's observable state backwards in the order PENDING,
\* PROCESSING, VALIDATING, terminal, and no step changes a terminal state,
\* re-delivery of the task to a worker included.
C5_StatusMonotonic ==
    [][\A t \in TaskIds :
          /\ StateRank(TaskState(t)') >= StateRank(TaskState(t))
          /\ TaskState(t) \in Terminal => TaskState(t)' = TaskState(t)]_vars

\* C6: once the worker has run process_claim_async to its end and the value it
\* returned is stored, the task is in a terminal state; a run that did not get
\* through validation returns ERROR with the fault's description; and a task whose
\* message has been acknowledged is terminal.
C6_WorkerEndsTerminal ==
    /\ \A w \in Workers :
          /\ worker[w].pc = "ack" => TaskState(worker[w].msg.task_id) \in Terminal
          /\ (worker[w].pc \in {"return", "ack"}
                /\ "validation_result" \notin worker[w].results.keys)
             => /\ worker[w].results.status = "ERROR"
                /\ "error" \in worker[w].results.keys
                /\ Truthy(worker[w].results.error)
    /\ \A i \in 1..Len(dispatched) :
          (\A m \in queue : m.task_id # dispatched[i].task_id)
          => TaskState(dispatched[i].task_id) \in Terminal

C6_Witness ==
    \E w \in Workers :
        /\ worker[w].pc = "ack"
        /\ TaskState(worker[w].msg.task_id) = "ERROR"
        /\ backend[worker[w].msg.task_id].result.error = T_bad

\* The stored results of the tasks that ran validation, each with the form of
\* the submission it was admitted for
Validated ==
    {r \in Requests :
        /\ req[r].resp.code = 200
        /\ CeleryStatus(req[r].resp.task_id) = "SUCCESS"
        /\ "validation_result" \in backend[req[r].resp.task_id].result.keys}

ResultOf(r) == backend[req[r].resp.task_id].result
FailuresOf(r) == ResultOf(r).validation_result.failures
Confidences(failures) == {failures[i].confidence : i \in 1..Len(failures)}

\* C7: the terminal state of a task on which validation completed is FAILED for
\* FAILED_CRITICAL, FLAGGED for FLAGGED_HIGH, COMPLETED for PASSED and PASSED_MEDIUM.
C7_TerminalMapping ==
    \A r \in Validated :
        LET outcome == ResultOf(r).validation_result.status
            state == TaskState(req[r].resp.task_id)
        IN  /\ outcome \in {"FAILED_CRITICAL", "FLAGGED_HIGH", "PASSED", "PASSED_MEDIUM"}
            /\ outcome = "FAILED_CRITICAL" => state = "FAILED"
            /\ outcome = "FLAGGED_HIGH" => state = "FLAGGED"
            /\ outcome \in {"PASSED", "PASSED_MEDIUM"} => state = "COMPLETED"

C7_Witness ==
    \E r \in Validated :
        /\ ResultOf(r).validation_result.status = "FLAGGED_HIGH"
        /\ TaskState(req[r].resp.task_id) = "FLAGGED"

\* C8: the validation status is the highest severity among the findings:
\* FAILED_CRITICAL with any CRITICAL finding, else FLAGGED_HIGH with any HIGH, else
\* PASSED_MEDIUM with any MEDIUM, else PASSED.
C8_SeverityLadder ==
    \A r \in Validated :
        LET present == Confidences(FailuresOf(r))
            status == ResultOf(r).validation_result.status
        IN  /\ present \subseteq {"CRITICAL", "HIGH", "MEDIUM"}
            /\ status = "FAILED_CRITICAL" <=> "CRITICAL" \in present
            /\ status = "FLAGGED_HIGH" <=> ("HIGH" \in present /\ "CRITICAL" \notin present)
            /\ status = "PASSED_MEDIUM" <=> present = {"MEDIUM"}
            /\ status = "PASSED" <=> present = {}

C8_Witness ==
    \E r \in Validated :
        /\ Len(FailuresOf(r)) = 3
        /\ FailuresOf(r)[1].confidence = "HIGH"
        /\ FailuresOf(r)[2].confidence = "MEDIUM"
        /\ FailuresOf(r)[3].confidence = "CRITICAL"
        /\ ResultOf(r).validation_result.status = "FAILED_CRITICAL"

Rule1Findings(failures) ==
    {i \in 1..Len(failures) :
        failures[i].reason \in {"DICOM Corrupt", "Patient ID Mismatch"}}

\* C9: Rule 1 emits exactly one CRITICAL finding when reading the DICOM file
\* raised; otherwise it emits a CRITICAL finding naming both ids exactly when the
\* trimmed patient id of the claim differs from the trimmed PatientID read from the
\* file; and a task for which Rule 1 emitted a finding ends FAILED.
C9_IdentityRule ==
    \A r \in Validated :
        LET form == req[r].form
            dicom == form.files["dicom"]
            failures == FailuresOf(r)
            found == Rule1Findings(failures)
            claimed == Strip(form.verified_patient_id)
            read == Strip(IF dicom.data = None THEN T_NA ELSE dicom.data)
        IN  /\ \A i \in found : failures[i].confidence = "CRITICAL"
            /\ dicom.exc # None => Cardinality(found) = 1
            /\ dicom.exc = None =>
                  /\ found # {} <=> claimed # read
                  /\ \A i \in found : failures[i].args = <<claimed, read>>
            /\ found # {} => TaskState(req[r].resp.task_id) = "FAILED"

Rule4Findings(failures) ==
    {i \in 1..Len(failures) :
        failures[i].reason = "Missing Patient Consent (Payload or Image required)."}

\* C10 as claimed: Rule 4 emits a CRITICAL finding exactly when the submission
\* carried neither a consent payload nor a consent image.
C10_ConsentAsClaimed ==
    \A r \in Validated :
        Rule4Findings(FailuresOf(r)) # {}
        <=> (~Truthy(req[r].form.digital_consent_payload)
             /\ ~req[r].form.files["consent_image"].present)

\* C10 as amended: Rule 4 emits one CRITICAL finding exactly when no consent image
\* was uploaded and the consent payload is absent, empty, or JSON for an empty
\* object or null; a payload with content or a consent image alone suppresses it.
C10_ConsentRule ==
    \A r \in Validated :
        LET failures == FailuresOf(r)
            found == Rule4Findings(failures)
        IN  /\ found # {}
               <=> (req[r].form.digital_consent_payload \in {None, <<>>, J_empty, J_null}
                    /\ ~req[r].form.files["consent_image"].present)
            /\ Cardinality(found) <= 1
            /\ \A i \in found : failures[i].confidence = "CRITICAL"

C10_Witness ==
    \E r1 \in Validated :
        /\ req[r1].form.digital_consent_payload = J_empty
        /\ ~req[r1].form.files["consent_image"].present
        /\ Rule4Findings(FailuresOf(r1)) # {}

Rule3Findings(failures) ==
    {i \in 1..Len(failures) :
        failures[i].reason = "Patient photo provided, but GPS geotag data is missing."}

\* C11: Rule 3 emits one MEDIUM finding exactly when a patient photo was uploaded
\* and the geotag is absent or the empty string; with a non-empty geotag, or
\* without a photo, it emits none.
C11_GeotagRule ==
    \A r \in Validated :
        LET failures == FailuresOf(r)
            found == Rule3Findings(failures)
        IN  /\ found # {}
               <=> (req[r].form.files["patient_photo"].present
                    /\ req[r].form.patient_geotag \in {None, <<>>})
            /\ Cardinality(found) <= 1
            /\ \A i \in found : failures[i].confidence = "MEDIUM"

C11_Witness ==
    \E r1 \in Validated :
        /\ req[r1].form.files["patient_photo"].present
        /\ req[r1].form.patient_geotag = <<>>
        /\ Rule3Findings(FailuresOf(r1)) # {}

\* C12: the FHIR bundle is generated exactly when validation did not end in
\* FAILED_CRITICAL; a failed generation leaves an error field in the bundle of
\* the result and the terminal state is the one validation gives, COMPLETED or
\* FLAGGED.
C12_FhirNonFatal ==
    \A r \in Validated :
        LET res == ResultOf(r)
            val_status == res.validation_result.status
        IN  /\ "fhir_bundle" \in res.keys <=> val_status # "FAILED_CRITICAL"
            /\ "fhir_bundle" \notin res.keys => res.fhir_bundle = NoFhir
            /\ ("fhir_bundle" \in res.keys /\ res.fhir_bundle.error # None)
               => /\ res.fhir_bundle.patient = None
                  /\ res.error = None
                  /\ TaskState(req[r].resp.task_id) =
                        (IF val_status = "FLAGGED_HIGH" THEN "FLAGGED" ELSE "COMPLETED")

C12_Witness ==
    \E r1 \in Validated :
        /\ "fhir_bundle" \in ResultOf(r1).keys
        /\ ResultOf(r1).fhir_bundle.error # None
        /\ TaskState(req[r1].resp.task_id) = "FLAGGED"

\* C13: a task whose worker crashed and which was delivered and executed again
\* stores, when no update_state call raises, the result an uninterrupted run of
\* the same message returns: the same terminal status and the same payload.
C13_ReExecutionSameResult ==
    \A r \in Validated :
        ResultOf(r) = process_claim_async(Message(req[r].form, req[r].resp.task_id))

C13_Witness ==
    \E r1 \in Validated :
        /\ crashes > 0
        /\ queue = {}
        /\ ResultOf(r1) = process_claim_async(Message(req[r1].form, req[r1].resp.task_id))
        /\ TaskState(req[r1].resp.task_id) \in {"COMPLETED", "FLAGGED"}

Admitted == {dispatched[i].task_id : i \in 1..Len(dispatched)}

\* C14: a status query for a task id that was never admitted fails with NotFound
\* and reports no state.
C14_UnknownTaskNotFound ==
    (lastResp.op = "status" /\ lastResp.task_id \notin Admitted)
    => (lastResp.code = 404 /\ lastResp.status = "")

EmptyField(args) == \E i \in 1..Len(args) : args[i] = <<>>

\* C15: an override request whose task id, doctor id and reason are all non-empty
\* is accepted; the step that accepts it appends exactly one entry, the one it
\* returns, and leaves the backend record and the state of every task (a FLAGGED
\* task stays FLAGGED) and the idempotency table unchanged.
C15_OverrideSucceeds ==
    /\ []((lastResp.op = "override" /\ ~EmptyField(lastResp.args))
            => /\ lastResp.code = 200
               /\ Len(lastResp.logs) = 1
               /\ \E i \in 1..Len(IMMUTABLE_LOGS) : IMMUTABLE_LOGS[i] = lastResp.logs[1])
    /\ [][IMMUTABLE_LOGS' # IMMUTABLE_LOGS
            => /\ lastResp'.op = "override" /\ lastResp'.code = 200
               /\ IMMUTABLE_LOGS' = Append(IMMUTABLE_LOGS, lastResp'.logs[1])
               /\ IDEMPOTENCY_DB' = IDEMPOTENCY_DB
               /\ backend' = backend
               /\ queue' = queue
               /\ \A t \in QueryIds : TaskState(t)' = TaskState(t)]_vars

C15_Witness ==
    /\ TaskState(1) = "FLAGGED"
    /\ lastResp.op = "override" /\ lastResp.code = 200
    /\ Len(IMMUTABLE_LOGS) = 2
    /\ IMMUTABLE_LOGS[2] = lastResp.logs[1]
    /\ DOMAIN IDEMPOTENCY_DB # {}

\* C16: an override request in which the task id, the doctor id or the reason is
\* empty fails: the response carries no log entry, the step appends nothing, and
\* no entry of the log has an empty task id, doctor id or reason.
C16_EmptyOverrideRejected ==
    /\ []((lastResp.op = "override" /\ EmptyField(lastResp.args))
            => (lastResp.code = 422 /\ lastResp.logs = <<>>))
    /\ [](\A i \in 1..Len(IMMUTABLE_LOGS) :
            ~EmptyField(<<IMMUTABLE_LOGS[i].task_id, IMMUTABLE_LOGS[i].doctor_id,
                          IMMUTABLE_LOGS[i].reason>>))
    /\ [][(lastResp'.op = "override" /\ EmptyField(lastResp'.args) /\ lastResp' # lastResp)
            => IMMUTABLE_LOGS' = IMMUTABLE_LOGS]_vars

C16_Witness ==
    /\ lastResp.op = "override"
    /\ lastResp.args = <<(<<"1">>), <<>>, (<<"1">>)>>
    /\ lastResp.code = 422
    /\ Len(IMMUTABLE_LOGS) = 1

\* C17: the override log is append-only: every step keeps the entries it holds,
\* unchanged and in their order, and adds at most one at the end; only an accepted
\* override adds an entry; reading the log returns all of it, in that order.
C17_AppendOnly ==
    [][/\ Len(IMMUTABLE_LOGS') >= Len(IMMUTABLE_LOGS)
       /\ SubSeq(IMMUTABLE_LOGS', 1, Len(IMMUTABLE_LOGS)) = IMMUTABLE_LOGS
       /\ IMMUTABLE_LOGS' # IMMUTABLE_LOGS
          => /\ lastResp'.op = "override" /\ lastResp'.code = 200
             /\ IMMUTABLE_LOGS' = Append(IMMUTABLE_LOGS, lastResp'.logs[1])
       /\ (lastResp'.op = "logs" /\ lastResp' # lastResp)
          => (lastResp'.logs = IMMUTABLE_LOGS /\ IMMUTABLE_LOGS' = IMMUTABLE_LOGS)]_vars

C17_Witness ==
    /\ lastResp.op = "logs"
    /\ lastResp.logs = IMMUTABLE_LOGS
    /\ Len(IMMUTABLE_LOGS) = 2
    /\ IMMUTABLE_LOGS[1].timestamp < IMMUTABLE_LOGS[2].timestamp

SealedFields(log) == <<log.task_id, log.doctor_id, log.reason, log.timestamp>>

\* C18: the signature of an entry is a hash of its task id, doctor id, reason and
\* timestamp: two entries that differ in any of these fields carry different
\* signatures.
C18_SealCoversAllFields ==
    \A i, j \in 1..Len(IMMUTABLE_LOGS) :
        SealedFields(IMMUTABLE_LOGS[i]) # SealedFields(IMMUTABLE_LOGS[j])
        => IMMUTABLE_LOGS[i].signature # IMMUTABLE_LOGS[j].signature

Rule2Findings(failures) ==
    {i \in 1..Len(failures) :
        failures[i].reason = "Lab report says 'Normal' but Diagnosis is Critical."}

\* C19: when extraction of the lab PDF fails, the failure is recorded in the result
\* and is not fatal: a task that ends in ERROR does so for a fault of its own, not
\* with the extraction error, a task that reached validation holds the error text
\* under ocr_results, and the error text makes no rule emit a finding: Rule 2
\* emits none.
C19_NonPrimaryFailureBenign ==
    \A r \in Requests :
        (/\ req[r].resp.code = 200
         /\ CeleryStatus(req[r].resp.task_id) = "SUCCESS"
         /\ req[r].form.files["lab_pdf"].present
         /\ req[r].form.files["lab_pdf"].exc # None)
        => LET res == ResultOf(r)
           IN  /\ res.status = "ERROR" => res.error = T_bad
               /\ res.status # "ERROR"
                  => /\ r \in Validated
                     /\ res.ocr_results["lab_pdf"]
                           = T_PdfError \o req[r].form.files["lab_pdf"].exc
                     /\ Rule2Findings(res.validation_result.failures) = {}

\* C20: a key is bound only once its task was handed to the queue: every bound
\* key was dispatched with the task id it is bound to, and the key of a submission
\* whose dispatch failed is bound only if another submission was admitted under
\* it, so a retry of the failed submission is admitted, not rejected as a duplicate.
C20_BoundAfterDispatch ==
    /\ \A k \in DOMAIN IDEMPOTENCY_DB :
          \E i \in 1..Len(dispatched) :
              dispatched[i] = [key |-> k, task_id |-> IDEMPOTENCY_DB[k]]
    /\ \A r \in Requests :
          (Done(r) /\ req[r].resp.code = 500
           /\ EffectiveKey(req[r].form) \in DOMAIN IDEMPOTENCY_DB)
          => \E r0 \in Requests \ {r} :
                /\ req[r0].resp.code = 200
                /\ req[r0].resp.idempotency_key = EffectiveKey(req[r].form)
                /\ req[r0].resp.task_id = IDEMPOTENCY_DB[EffectiveKey(req[r].form)]
    /\ \A r \in Requests :
          (Done(r) /\ req[r].resp.code = 409)
          => EffectiveKey(req[r].form) \in DOMAIN IDEMPOTENCY_DB

C20_Witness ==
    \E r, r0 \in Requests :
        /\ req[r].resp.code = 500
        /\ req[r0].form = req[r].form
        /\ req[r0].resp.code = 200
        /\ IDEMPOTENCY_DB[EffectiveKey(req[r].form)] = req[r0].resp.task_id

====
